---- MODULE Spec2Model ----
(***************************************************************************)
(* Model of luminoth/utils/predicting.py: PredictorNetwork.__init__ (the   *)
(* class-label table only), PredictorNetwork.bbs_pixel_apart and           *)
(* PredictorNetwork.predict_image.                                         *)
(*                                                                         *)
(* Conventions.                                                            *)
(*  - Python lists are sequences; Python index i is index i+1 here, so     *)
(*    `count` (0-based in the source) addresses element count+1.           *)
(*  - A probability is an integer number p of 1e-5 units and stands for the *)
(*    float32 nearest to p/100000, widened to a double by tolist(); a      *)
(*    rounded probability (round(p, 4)) is an integer number of 1e-4       *)
(*    units.                                                               *)
(*  - A coordinate and a scale of the network are integers (each stands    *)
(*    for a float32 value; a common power of two may be factored out of a  *)
(*    coordinate and its scale).  A rescaled coordinate is the float32     *)
(*    <<m, e>>, that is m / 2^e (m * 2^(-e) when e < 0).                   *)
(*  - None is the empty sequence; a filled slot is a one-element sequence  *)
(*    holding the record d.                                                *)
(*  - `image` is the argument of predict_image, identified with the arrays *)
(*    session.run computes for it; `fetched` is the local of that name,    *)
(*    unbound (<<>>) before line 117, whose 'objects' array the division   *)
(*    of lines 134-139 changes in place.                                   *)
(*  - The variables class_labels .. raised are the predictor and the frame *)
(*    of the running predict_image call; `other` is the frame of a second  *)
(*    call on the same predictor that is suspended (Absent when there is   *)
(*    none).                                                               *)
(*  - The remaining variables are the locals of mosaic.assemble_mosaic.    *)
(***************************************************************************)
EXTENDS Integers, Sequences, FiniteSets, TLC

VARIABLES class_labels, image, fetched, pc, objects, labels, probs,
          predictions, count, returned, raised, other,
          images_in_path, tile_size, mpc, x_tiles, y_tiles, channels,
          mosaiced_im, index, mraised

mosaic_vars == <<images_in_path, tile_size, mpc, x_tiles, y_tiles, channels,
                 mosaiced_im, index, mraised>>

\* What a step of the running predict_image call leaves alone.
outside == <<other, mosaic_vars>>

vars == <<class_labels, image, fetched, pc, objects, labels, probs,
          predictions, count, returned, raised, other, mosaic_vars>>

-----------------------------------------------------------------------------
(* Bounds of the model *)

MaxN == 3
MaxCoord == 5
MaxConcN == 2
MaxImages == 7
MaxDelta == 2
MaxPermN == 3
MaxTile == 3

-----------------------------------------------------------------------------
(* Python / numpy primitives *)

None == <<>>

Abs(x) == IF x < 0 THEN -x ELSE x

Range(s) == {s[i] : i \in 1..Len(s)}

SeqMax(s) == CHOOSE m \in Range(s) : \A x \in Range(s) : x <= m

\* Variant of RoundHalfEven: exact halves always go up.
RoundHalfUp(n, d) ==
    LET q == n \div d
        r == n % d
    IN  IF 2 * r < d THEN q ELSE q + 1

\* Python 3 round(n/d) for d > 0: nearest integer, exact halves to even.
RoundHalfEven(n, d) ==
    LET q == n \div d
        r == n % d
    IN  IF 2 * r < d THEN q
        ELSE IF 2 * r > d THEN q + 1
        ELSE IF q % 2 = 0 THEN q ELSE q + 1

\* The 24-bit significand q of the float32 nearest to p/100000 before its
\* last rounding, with the remainder r out of 100000 that the rounding
\* decides on: q + r/100000 is p/100000 scaled by a power of two into
\* [2^23, 2^24).
RECURSIVE Float32Significand(_, _)
Float32Significand(q, r) ==
    IF q >= 8388608 THEN <<q, r>>
    ELSE Float32Significand(2 * q + (2 * r) \div 100000, (2 * r) % 100000)

\* Where the float32 nearest to p/100000 (p > 0) lies: -1 below p/100000,
\* 1 above it, 0 on it.  Ties of the float32 rounding go to the even
\* significand.
Float32Side(p) ==
    LET qr == Float32Significand(p \div 100000, p % 100000)
        q == qr[1]
        r == qr[2]
    IN  IF r = 0 THEN 0
        ELSE IF r < 50000 THEN -1
        ELSE IF r > 50000 THEN 1
        ELSE IF q % 2 = 0 THEN -1 ELSE 1

\* round(prob, 4): 1e-5 units to 1e-4 units.  prob is a float32 widened to a
\* double and round goes to the nearer side of that double: a p with a 5 in
\* the fifth decimal is an exact half only when p/100000 is a binary
\* fraction, otherwise the float lies on one side of the half.
RoundProb(p) ==
    IF p % 10 # 5 THEN RoundHalfEven(p, 10)
    ELSE LET side == Float32Side(p)
         IN  IF side = 0 THEN RoundHalfEven(p, 10)
             ELSE IF side < 0 THEN p \div 10
             ELSE p \div 10 + 1

\* list(range(n)), 1-based.
Indices(n) == [i \in 1..n |-> i]

\* objects.count(obj)
ListCount(objs, obj) == Cardinality({i \in 1..Len(objs) : objs[i] = obj})

-----------------------------------------------------------------------------
(* PredictorNetwork.__init__: the class-label table *)

\* json.load of classes.json: raw label identifier -> class name.
ClassTable == <<"cat", "dog">>

LabelIds == 0..(Len(ClassTable) - 1)

Unset == [state |-> "unset", table |-> <<>>]
NoTable == [state |-> "none", table |-> <<>>]
Loaded == [state |-> "table", table |-> ClassTable]

\* The attribute self.class_labels after __init__(config).
InitClassLabels(dataset_dir, classes_file_exists) ==
    IF dataset_dir
    THEN IF classes_file_exists THEN Loaded ELSE NoTable
    ELSE Unset

-----------------------------------------------------------------------------
(* PredictorNetwork.bbs_pixel_apart *)

\* set(np.fabs(np.subtract(each_obj, obj)))
AbsDiffs(each_obj, obj) == {Abs(each_obj[k] - obj[k]) : k \in 1..4}

\* Variant of bbs_pixel_apart: any box within one pixel in every coordinate
\* other than an identical one.
bbs_pixel_apart_any(obj, objs) ==
    SelectSeq(Indices(Len(objs)),
              LAMBDA i : AbsDiffs(objs[i], obj) \subseteq {0, 1}
                         /\ objs[i] # obj)

bbs_pixel_apart(obj, objs) ==
    SelectSeq(Indices(Len(objs)),
              LAMBDA i : AbsDiffs(objs[i], obj) = {0, 1})

-----------------------------------------------------------------------------
(* PredictorNetwork.predict_image: the pure parts *)

\* labels = [self.class_labels[label] for label in labels]
ResolveLabels(table, ls) == [i \in 1..Len(ls) |-> table[ls[i] + 1]]

\* The divisor of coordinate k (1 xmin, 2 ymin, 3 xmax, 4 ymax).
\* scale_factor is [is_tuple |-> TRUE, val |-> <<height, width>>] or
\* [is_tuple |-> FALSE, val |-> <<scalar>>].
\* Variant of Divisor: height and width scales exchanged.
DivisorSwapped(sf, k) ==
    IF sf.is_tuple
    THEN (IF k \in {1, 3} THEN sf.val[1] ELSE sf.val[2])
    ELSE sf.val[1]

Divisor(sf, k) ==
    IF sf.is_tuple
    THEN (IF k \in {1, 3} THEN sf.val[2] ELSE sf.val[1])
    ELSE sf.val[1]

\* The quotient q + r/d scaled up by powers of two until q has 24 bits:
\* <<q, r, e>> with the quotient equal to (q + r/d) / 2^e.
RECURSIVE Float32ScaleUp(_, _, _, _)
Float32ScaleUp(q, r, d, e) ==
    IF q >= 8388608 THEN <<q, r, e>>
    ELSE Float32ScaleUp(2 * q + (2 * r) \div d, (2 * r) % d, d, e + 1)

\* A quotient of more than 24 bits scaled down to 24 bits: <<q, half, sticky,
\* e>> with half the last bit dropped and sticky whether anything below it
\* was not zero.
RECURSIVE Float32ScaleDown(_, _, _, _)
Float32ScaleDown(q, half, sticky, e) ==
    IF q < 16777216 THEN <<q, half, sticky, e>>
    ELSE Float32ScaleDown(q \div 2, q % 2, sticky \/ half = 1, e - 1)

\* m / 2^e with the common factors of two removed.
RECURSIVE Float32Reduce(_, _)
Float32Reduce(m, e) ==
    IF m % 2 = 0 /\ e > 0 THEN Float32Reduce(m \div 2, e - 1) ELSE <<m, e>>

\* The float32 division n / d of line 134 or 139, n >= 0 and d > 0 float32
\* values: the float32 nearest to the quotient, ties to the even significand.
Float32Divide(n, d) ==
    IF n = 0 THEN <<0, 0>>
    ELSE IF n \div d < 16777216
    THEN LET qre == Float32ScaleUp(n \div d, n % d, d, 0)
             q == qre[1]
             r == qre[2]
             m == IF 2 * r > d \/ (2 * r = d /\ q % 2 = 1) THEN q + 1 ELSE q
         IN  Float32Reduce(m, qre[3])
    ELSE LET qhse == Float32ScaleDown(n \div d, 0, n % d # 0, 0)
             q == qhse[1]
             m == IF qhse[2] = 1 /\ (qhse[3] \/ q % 2 = 1) THEN q + 1 ELSE q
         IN  <<m, qhse[4]>>

\* objects /= ...: every coordinate becomes the float32 coord / divisor.
ScaleObjects(objs, sf) ==
    [i \in 1..Len(objs) |->
        [k \in 1..4 |-> Float32Divide(objs[i][k], Divisor(sf, k))]]

\* Variant of RoundCoord: halves up.
RoundCoordUp(f) ==
    IF f[2] <= 0 THEN f[1] * 2^(0 - f[2])
    ELSE IF f[2] > 30 THEN 0
    ELSE RoundHalfUp(f[1], 2^f[2])

\* int(round(coord)) of the float32 f, widened to a double by tolist().
RoundCoord(f) ==
    IF f[2] <= 0 THEN f[1] * 2^(0 - f[2])
    ELSE IF f[2] > 30 THEN 0
    ELSE RoundHalfEven(f[1], 2^f[2])

\* [[int(round(coord)) for coord in obj] for obj in objects.tolist()]
RoundObjects(objs) ==
    [i \in 1..Len(objs) |-> [k \in 1..4 |-> RoundCoord(objs[i][k])]]

\* Variant of FirstMaxIndex: the last entry of highest prob, [...][-1].
LastMaxIndex(indices, ps) ==
    LET max_prob == SeqMax(ps)
        k == CHOOSE j \in 1..Len(ps) :
                 ps[j] = max_prob /\ \A h \in (j + 1)..Len(ps) : ps[h] # max_prob
    IN  indices[k]

\* [index for index, prob in zip(indices, ps) if prob == max(ps)][0]
FirstMaxIndex(indices, ps) ==
    LET max_prob == SeqMax(ps)
        k == CHOOSE j \in 1..Len(ps) :
                 ps[j] = max_prob /\ \A h \in 1..(j - 1) : ps[h] # max_prob
    IN  indices[k]

\* The dict d written into a slot.
Detection(bbox, label, prob) ==
    [bbox |-> bbox, label |-> label, prob |-> RoundProb(prob)]

\* Variant of NearStep: the record written for the winner carries the
\* current box, 'bbox': obj.
NearStepOwnBox(objs, ls, ps, preds, cur) ==
    LET near == bbs_pixel_apart(objs[cur], objs)
    IN  IF Len(near) > 0
        THEN LET repeated_indices == Append(near, cur)
                 repeated_probs == [j \in 1..Len(repeated_indices) |->
                                        ps[repeated_indices[j]]]
                 max_prob == SeqMax(repeated_probs)
                 prob_index == FirstMaxIndex(repeated_indices, repeated_probs)
                 d == Detection(objs[cur], ls[prob_index], max_prob)
             IN  [preds EXCEPT ![prob_index] = <<d>>]
        ELSE preds

\* Variant of NearStep: the winner suppresses the rest of its group, whose
\* slots are emptied.
NearStepSuppressing(objs, ls, ps, preds, cur) ==
    LET near == bbs_pixel_apart(objs[cur], objs)
    IN  IF Len(near) > 0
        THEN LET repeated_indices == Append(near, cur)
                 repeated_probs == [j \in 1..Len(repeated_indices) |->
                                        ps[repeated_indices[j]]]
                 max_prob == SeqMax(repeated_probs)
                 prob_index == FirstMaxIndex(repeated_indices, repeated_probs)
                 d == Detection(objs[prob_index], ls[prob_index], max_prob)
             IN  [i \in 1..Len(preds) |->
                     IF i = prob_index THEN <<d>>
                     ELSE IF i \in Range(repeated_indices) THEN None
                     ELSE preds[i]]
        ELSE preds

\* Lines 153-174: the near-duplicate step of the iteration at index cur.
NearStep(objs, ls, ps, preds, cur) ==
    LET near == bbs_pixel_apart(objs[cur], objs)
    IN  IF Len(near) > 0
        THEN LET repeated_indices == Append(near, cur)
                 repeated_probs == [j \in 1..Len(repeated_indices) |->
                                        ps[repeated_indices[j]]]
                 max_prob == SeqMax(repeated_probs)
                 prob_index == FirstMaxIndex(repeated_indices, repeated_probs)
                 d == Detection(objs[prob_index], ls[prob_index], max_prob)
             IN  [preds EXCEPT ![prob_index] = <<d>>]
        ELSE preds

\* Variant of ExactStep: the kept record of a duplicated box carries the
\* label of the current index instead of the winner's.
ExactStepOwnLabel(objs, ls, ps, preds, cur) ==
    LET obj == objs[cur]
    IN  IF ListCount(objs, obj) = 1
        THEN [preds EXCEPT ![cur] = <<Detection(obj, ls[cur], ps[cur])>>]
        ELSE LET repeated_indices ==
                     SelectSeq(Indices(Len(objs)), LAMBDA i : objs[i] = obj)
                 repeated_probs == [j \in 1..Len(repeated_indices) |->
                                        ps[repeated_indices[j]]]
                 max_prob == SeqMax(repeated_probs)
                 prob_index == FirstMaxIndex(repeated_indices, repeated_probs)
                 d == Detection(obj, ls[cur], max_prob)
             IN  [preds EXCEPT ![prob_index] = <<d>>]

\* Lines 175-196: the unique-box and exact-duplicate steps at index cur.
ExactStep(objs, ls, ps, preds, cur) ==
    LET obj == objs[cur]
    IN  IF ListCount(objs, obj) = 1
        THEN [preds EXCEPT ![cur] = <<Detection(obj, ls[cur], ps[cur])>>]
        ELSE LET repeated_indices ==
                     SelectSeq(Indices(Len(objs)), LAMBDA i : objs[i] = obj)
                 repeated_probs == [j \in 1..Len(repeated_indices) |->
                                        ps[repeated_indices[j]]]
                 max_prob == SeqMax(repeated_probs)
                 prob_index == FirstMaxIndex(repeated_indices, repeated_probs)
                 d == Detection(obj, ls[prob_index], max_prob)
             IN  [preds EXCEPT ![prob_index] = <<d>>]

\* Variant of LoopBody: the unique/exact rules run only when the box has no
\* near-duplicate (line 175 as elif).
LoopBodyElif(objs, ls, ps, preds, cur) ==
    IF Len(bbs_pixel_apart(objs[cur], objs)) > 0
    THEN NearStep(objs, ls, ps, preds, cur)
    ELSE ExactStep(objs, ls, ps, preds, cur)

\* Lines 153-196: one iteration of the for loop.
LoopBody(objs, ls, ps, preds, cur) ==
    ExactStep(objs, ls, ps, NearStep(objs, ls, ps, preds, cur), cur)

\* list(filter(None, predictions))
RECURSIVE FilterNone(_)
FilterNone(preds) ==
    IF preds = <<>> THEN <<>>
    ELSE (IF Head(preds) = None THEN <<>> ELSE Head(preds))
         \o FilterNone(Tail(preds))

\* Variant of InsertDescending: reverse=True forgotten.
InsertAscending(sorted, d) ==
    LET before == SelectSeq(sorted, LAMBDA e : e.prob <= d.prob)
        after == SelectSeq(sorted, LAMBDA e : e.prob > d.prob)
    IN  before \o <<d>> \o after

\* Variant of InsertDescending: records of equal prob come out in reversed
\* order (the ascending sort reversed afterwards).
InsertDescendingReversed(sorted, d) ==
    LET before == SelectSeq(sorted, LAMBDA e : e.prob > d.prob)
        after == SelectSeq(sorted, LAMBDA e : e.prob <= d.prob)
    IN  before \o <<d>> \o after

\* Variant of InsertDescending: no sort, the records stay in slot order.
InsertInSlotOrder(sorted, d) == Append(sorted, d)

\* sorted(predictions, key=lambda x: x['prob'], reverse=True): stable.
InsertDescending(sorted, d) ==
    LET before == SelectSeq(sorted, LAMBDA e : e.prob >= d.prob)
        after == SelectSeq(sorted, LAMBDA e : e.prob < d.prob)
    IN  before \o <<d>> \o after

RECURSIVE SortedByProb(_)
SortedByProb(ds) ==
    IF ds = <<>> THEN <<>>
    ELSE InsertDescending(SortedByProb(SubSeq(ds, 1, Len(ds) - 1)), ds[Len(ds)])

\* Lines 152-197: the iterations count+1 .. len(objects) of the for loop.
RECURSIVE RunLoop(_, _, _, _, _)
RunLoop(objs, ls, ps, preds, c) ==
    IF c >= Len(objs) THEN preds
    ELSE RunLoop(objs, ls, ps, LoopBody(objs, ls, ps, preds, c + 1), c + 1)

\* Lines 152-197 with lines 153-174 removed: the iterations count+1 ..
\* len(objects) of a pass that has only the unique and exact-duplicate rules.
RECURSIVE RunLoopWithoutNear(_, _, _, _, _)
RunLoopWithoutNear(objs, ls, ps, preds, c) ==
    IF c >= Len(objs) THEN preds
    ELSE RunLoopWithoutNear(objs, ls, ps,
                            ExactStep(objs, ls, ps, preds, c + 1), c + 1)

\* Lines 116-204: what one call of predict_image on its own ends in, for the
\* fetched batch b and the predictor attribute cl.
PredictAlone(b, cl) ==
    IF cl.state = "unset"
    THEN [returned |-> <<>>, raised |-> "AttributeError"]
    ELSE IF Len(b.objects) # Len(b.labels) \/ Len(b.labels) # Len(b.probs)
    THEN [returned |-> <<>>, raised |-> "AssertionError"]
    ELSE LET ls == IF cl.state = "table"
                   THEN ResolveLabels(cl.table, b.labels)
                   ELSE b.labels
             objs == RoundObjects(ScaleObjects(b.objects, b.scale_factor))
             slots == RunLoop(objs, ls, b.probs,
                              [i \in 1..Len(objs) |-> None], 0)
         IN  [returned |-> SortedByProb(FilterNone(slots)), raised |-> "none"]

-----------------------------------------------------------------------------
(* Inputs: what self.session.run returns for one image *)

\* Network-space boxes [xmin, ymin, xmax, ymax].  Divided by 2 the first two
\* round to the same box and the third lands one pixel from it; divided by
\* 1 the first two are one pixel apart and the third is two pixels from the
\* first.
RawBoxes == {<<0, 0, 4, 4>>, <<0, 0, 4, 5>>, <<0, 0, 4, 6>>}

\* 0.4, 0.40004 (rounds to 0.4 as well) and 0.95, in 1e-5 units.
ProbVals == {40000, 40004, 95000}

Scalar(s) == [is_tuple |-> FALSE, val |-> <<s>>]
Pair(sh, sw) == [is_tuple |-> TRUE, val |-> <<sh, sw>>]

ScaleVals == {Scalar(1), Scalar(2)}

\* Lengths of labels and probs for n boxes: aligned, or one of them short.
Lengths(n) ==
    {<<n, n>>} \cup (IF n > 0 THEN {<<n - 1, n>>, <<n, n - 1>>} ELSE {})

BatchesOfLen(boxes, scales, n) ==
    UNION {
        [objects : [1..n -> boxes],
         labels : [1..ln[1] -> LabelIds],
         probs : [1..ln[2] -> ProbVals],
         scale_factor : scales] : ln \in Lengths(n) }

Batches(boxes, scales, maxn) ==
    UNION {BatchesOfLen(boxes, scales, n) : n \in 0..maxn}

\* A box per choice of coordinates 0..MaxCoord, one box per batch.
CoordBoxes == [1..4 -> 0..MaxCoord]

PairScaleVals ==
    {Scalar(1), Scalar(2), Scalar(3), Pair(1, 2), Pair(2, 1), Pair(2, 4)}

\* The box [5.6, 4.0, 5.6, 4.0] and the scales (1.6, 1.6) as float32 values,
\* times 2^23: 5.6 / 1.6 lies just below 3.5 and 4.0 / 1.6 just below 2.5,
\* and both float32 quotients are the half itself.
Float32HalfBatches ==
    [objects : {<<(<<46976204, 33554432, 46976204, 33554432>>)>>},
     labels : [1..1 -> {0}],
     probs : [1..1 -> {95000}],
     scale_factor : {Pair(13421773, 13421773)}]

RescaleBatches ==
    [objects : [1..1 -> CoordBoxes],
     labels : [1..1 -> {0}],
     probs : [1..1 -> {95000}],
     scale_factor : PairScaleVals]
    \cup Float32HalfBatches

\* Batches of two calls that share the predictor: aligned, one pixel apart
\* or identical boxes, two probs.
ConcBoxes == {<<0, 0, 4, 4>>, <<0, 0, 4, 5>>}

ConcProbVals == {40000, 95000}

ConcBatches ==
    UNION {[objects : [1..n -> ConcBoxes],
            labels : [1..n -> {1}],
            probs : [1..n -> ConcProbVals],
            scale_factor : {Scalar(1)}] : n \in 0..MaxConcN}

\* 0.4, 0.40004 (equal to 0.4 once rounded), 0.40005 (whose float32 lies
\* above the half and rounds to 0.4001) and 0.95.
PermProbVals == {40000, 40004, 40005, 95000}

\* Aligned batches of up to MaxPermN boxes, unscaled, some with pairwise
\* distinct rounded probs and some without.
PermBatches ==
    UNION {[objects : [1..n -> RawBoxes],
            labels : [1..n -> LabelIds],
            probs : [1..n -> PermProbVals],
            scale_factor : {Scalar(1)}] : n \in 0..MaxPermN}

\* Pairs of boxes with every coordinate in 0..MaxDelta: identical, one pixel
\* apart in some, in all, or two pixels apart.
NearBatches ==
    [objects : [1..2 -> [1..4 -> 0..MaxDelta]],
     labels : [1..2 -> {0}],
     probs : [1..2 -> {40000}],
     scale_factor : {Scalar(1)}]

-----------------------------------------------------------------------------
(* The state machine *)

Constructed(batches) ==
    /\ class_labels \in {InitClassLabels(d, e) : d \in BOOLEAN, e \in BOOLEAN}
    /\ image \in batches
    /\ fetched = <<>>
    /\ pc = "start"
    /\ objects = <<>>
    /\ labels = <<>>
    /\ probs = <<>>
    /\ predictions = <<>>
    /\ count = 0
    /\ returned = <<>>
    /\ raised = "none"

\* No second call.
Absent ==
    [image |-> <<>>, fetched |-> <<>>, pc |-> "absent", objects |-> <<>>,
     labels |-> <<>>, probs |-> <<>>, predictions |-> <<>>, count |-> 0, returned |-> <<>>,
     raised |-> "none"]

\* assemble_mosaic has not been called.
MosaicIdle ==
    /\ images_in_path = <<>>
    /\ tile_size = <<>>
    /\ mpc = "idle"
    /\ x_tiles = 0
    /\ y_tiles = 0
    /\ channels = 0
    /\ mosaiced_im = <<>>
    /\ index = 0
    /\ mraised = "none"

Init ==
    /\ Constructed(Batches(RawBoxes, ScaleVals, MaxN))
    /\ other = Absent
    /\ MosaicIdle

\* The frame of a call that has not started, on an image for which the
\* network computes the batch b.
StartFrame(b) ==
    [image |-> b, fetched |-> <<>>, pc |-> "start", objects |-> <<>>,
     labels |-> <<>>, probs |-> <<>>, predictions |-> <<>>, count |-> 0, returned |-> <<>>,
     raised |-> "none"]

\* The frame of the running call.
Frame ==
    [image |-> image, fetched |-> fetched, pc |-> pc, objects |-> objects,
     labels |-> labels, probs |-> probs, predictions |-> predictions, count |-> count,
     returned |-> returned, raised |-> raised]

\* Two calls on one predictor, each with its own batch.
InitConcurrent ==
    /\ Constructed(ConcBatches)
    /\ other \in {StartFrame(b) : b \in ConcBatches}
    /\ MosaicIdle

InitNear ==
    /\ Constructed(NearBatches)
    /\ other = Absent
    /\ MosaicIdle

InitPerm ==
    /\ Constructed(PermBatches)
    /\ other = Absent
    /\ MosaicIdle

InitRescale ==
    /\ Constructed(RescaleBatches)
    /\ other = Absent
    /\ MosaicIdle

\* Lines 117-124: session.run, and the locals are bound to the fetched
\* arrays; objects is the array fetched['objects'] itself.
Fetch ==
    /\ pc = "start"
    /\ fetched' = image
    /\ objects' = image.objects
    /\ labels' = image.labels
    /\ probs' = image.probs
    /\ pc' = "fetched"
    /\ UNCHANGED <<class_labels, image, predictions, count, returned, raised>>
    /\ UNCHANGED outside

\* Lines 126-127.  Reading an attribute __init__ never set raises
\* AttributeError.
Resolve ==
    /\ pc = "fetched"
    /\ IF class_labels.state = "unset"
       THEN /\ raised' = "AttributeError"
            /\ pc' = "raised"
            /\ UNCHANGED labels
       ELSE /\ labels' = IF class_labels.state = "table"
                         THEN ResolveLabels(class_labels.table, labels)
                         ELSE labels
            /\ pc' = "resolved"
            /\ UNCHANGED raised
    /\ UNCHANGED <<class_labels, image, fetched, objects, probs, predictions, count,
                   returned>>
    /\ UNCHANGED outside

\* Lines 130-139: objects /= ... divides in place the array that objects and
\* fetched['objects'] both name.
Scale ==
    /\ pc = "resolved"
    /\ objects' = ScaleObjects(objects, fetched.scale_factor)
    /\ fetched' = [fetched EXCEPT !.objects = objects']
    /\ pc' = "scaled"
    /\ UNCHANGED <<class_labels, image, labels, probs, predictions, count,
                   returned, raised>>
    /\ UNCHANGED outside

\* Lines 142-145.
Round ==
    /\ pc = "scaled"
    /\ objects' = RoundObjects(objects)
    /\ pc' = "rounded"
    /\ UNCHANGED <<class_labels, image, fetched, labels, probs, predictions, count,
                   returned, raised>>
    /\ UNCHANGED outside

\* Lines 149-151.
Allocate ==
    /\ pc = "rounded"
    /\ predictions' = [i \in 1..Len(objects) |-> None]
    /\ IF Len(objects) = Len(labels) /\ Len(labels) = Len(probs)
       THEN /\ count' = 0
            /\ pc' = "loop"
            /\ UNCHANGED raised
       ELSE /\ raised' = "AssertionError"
            /\ pc' = "raised"
            /\ UNCHANGED count
    /\ UNCHANGED <<class_labels, image, fetched, objects, labels, probs, returned>>
    /\ UNCHANGED outside

\* Lines 152-197: one iteration of the for loop.
Iterate ==
    /\ pc = "loop"
    /\ count < Len(objects)
    /\ predictions' = LoopBody(objects, labels, probs, predictions, count + 1)
    /\ count' = count + 1
    /\ UNCHANGED <<class_labels, image, fetched, pc, objects, labels, probs, returned,
                   raised>>
    /\ UNCHANGED outside

\* Lines 198-204: the loop is exhausted; predictions is rebound to the
\* filtered list, then to the sorted list, which is returned.
Return ==
    /\ pc = "loop"
    /\ count = Len(objects)
    /\ predictions' = SortedByProb(FilterNone(predictions))
    /\ returned' = predictions'
    /\ pc' = "returned"
    /\ UNCHANGED <<class_labels, image, fetched, objects, labels, probs, count,
                   raised>>
    /\ UNCHANGED outside

\* Variant of Switch: the slot array lives on the predictor, so it is not
\* part of what a call keeps to itself.
SwitchSharedSlots ==
    /\ other.pc # "absent"
    /\ other' = Frame
    /\ image' = other.image
    /\ fetched' = other.fetched
    /\ pc' = other.pc
    /\ objects' = other.objects
    /\ labels' = other.labels
    /\ probs' = other.probs
    /\ count' = other.count
    /\ returned' = other.returned
    /\ raised' = other.raised
    /\ UNCHANGED <<class_labels, predictions, mosaic_vars>>

\* The scheduler suspends the running call and resumes the other one.  The
\* locals of predict_image travel with their call; self.class_labels is the
\* predictor's and stays.
Switch ==
    /\ other.pc # "absent"
    /\ other' = Frame
    /\ image' = other.image
    /\ fetched' = other.fetched
    /\ pc' = other.pc
    /\ objects' = other.objects
    /\ labels' = other.labels
    /\ probs' = other.probs
    /\ predictions' = other.predictions
    /\ count' = other.count
    /\ returned' = other.returned
    /\ raised' = other.raised
    /\ UNCHANGED <<class_labels, mosaic_vars>>

Next == Fetch \/ Resolve \/ Scale \/ Round \/ Allocate \/ Iterate \/ Return

Spec == Init /\ [][Next]_vars

SpecRescale == InitRescale /\ [][Next]_vars

SpecNear == InitNear /\ [][Next]_vars

SpecPerm == InitPerm /\ [][Next]_vars

NextConcurrent == Next \/ Switch

-----------------------------------------------------------------------------
(* mosaic.assemble_mosaic *)

\* The shape cv2.imread gives an image file: (h, w) for a grayscale file,
\* (h, w, 3) for a colour file.
GrayShape == <<2, 2>>
ColorShape == <<2, 2, 3>>

\* Variant of CeilSqrt: int(np.sqrt(n)), the ceiling forgotten.
FloorSqrt(n) == CHOOSE t \in 0..n : t * t <= n /\ (t + 1) * (t + 1) > n

\* int(math.ceil(np.sqrt(n)))
CeilSqrt(n) ==
    CHOOSE t \in 0..n : t * t >= n /\ \A u \in 0..(t - 1) : u * u < n

\* cv2.resize(image, (tile_size_y, tile_size_x)).shape, then the new axis
\* of line 63 when channels == 1.
ResizedShape(img, ts, ch) ==
    LET resized == <<ts[1], ts[2]>> \o SubSeq(img, 3, Len(img))
    IN  IF ch = 1
        THEN SubSeq(resized, 1, 2) \o <<1>> \o SubSeq(resized, 3, Len(resized))
        ELSE resized

\* numpy drops leading axes of length 1 of a value that has more axes than
\* the target.
RECURSIVE StripLeading(_, _)
StripLeading(value, n) ==
    IF Len(value) > n /\ value[1] = 1 THEN StripLeading(Tail(value), n)
    ELSE value

\* target[...] = value: the value must broadcast to the target's shape.
CanAssign(value, target) ==
    LET v == StripLeading(value, Len(target))
    IN  /\ Len(v) <= Len(target)
        /\ \A k \in 0..(Len(v) - 1) :
               v[Len(v) - k] \in {1, target[Len(target) - k]}

\* list(itertools.product(range(x_tiles), range(y_tiles)))
TileIndices(xt, yt) == [k \in 1..(xt * yt) |-> <<(k - 1) \div yt, (k - 1) % yt>>]

\* Image lists of up to MaxImages files, each grayscale or colour, and tile
\* sizes up to MaxTile.
InitMosaic ==
    /\ Constructed({[objects |-> <<>>, labels |-> <<>>, probs |-> <<>>,
                      scale_factor |-> Scalar(1)]})
    /\ other = Absent
    /\ images_in_path \in
           UNION {[1..n -> {GrayShape, ColorShape}] : n \in 0..MaxImages}
    /\ tile_size \in (1..MaxTile) \X (1..MaxTile)
    /\ mpc = "start"
    /\ x_tiles = 0
    /\ y_tiles = 0
    /\ channels = 0
    /\ mosaiced_im = <<>>
    /\ index = 0
    /\ mraised = "none"

predictor_vars == <<class_labels, image, fetched, pc, objects, labels, probs,
                    predictions, count, returned, raised, other>>

\* Lines 34-43: the number of tiles and of channels.
CountTiles ==
    /\ mpc = "start"
    /\ x_tiles' = CeilSqrt(Len(images_in_path))
    /\ y_tiles' = CeilSqrt(Len(images_in_path))
    /\ IF Len(images_in_path) = 0
       THEN /\ mraised' = "IndexError"
            /\ mpc' = "raised"
            /\ UNCHANGED channels
       ELSE /\ channels' = IF Len(images_in_path[1]) > 2
                           THEN images_in_path[1][3]
                           ELSE 1
            /\ mpc' = "counted"
            /\ UNCHANGED mraised
    /\ UNCHANGED <<images_in_path, tile_size, mosaiced_im, index>>
    /\ UNCHANGED predictor_vars

\* Lines 46-53: the canvas, every tile holding the fill value (image 0).
Canvas ==
    /\ mpc = "counted"
    /\ mosaiced_im' =
           [shape |-> <<x_tiles * tile_size[1], y_tiles * tile_size[2], channels>>,
            tiles |-> [t \in Range(TileIndices(x_tiles, y_tiles)) |-> 0]]
    /\ index' = 0
    /\ mpc' = "tiling"
    /\ UNCHANGED <<images_in_path, tile_size, x_tiles, y_tiles, channels,
                   mraised>>
    /\ UNCHANGED predictor_vars

\* Lines 54-69: one iteration; index is the number of images placed.
PlaceTile ==
    /\ mpc = "tiling"
    /\ index < Len(images_in_path)
    /\ LET indices == TileIndices(x_tiles, y_tiles)
           resized == ResizedShape(images_in_path[index + 1], tile_size, channels)
           target == <<tile_size[1], tile_size[2], channels>>
       IN  IF index + 1 > Len(indices)
           THEN /\ mraised' = "IndexError"
                /\ mpc' = "raised"
                /\ UNCHANGED <<mosaiced_im, index>>
           ELSE IF ~CanAssign(resized, target)
           THEN /\ mraised' = "ValueError"
                /\ mpc' = "raised"
                /\ UNCHANGED <<mosaiced_im, index>>
           ELSE /\ mosaiced_im' =
                       [mosaiced_im EXCEPT !.tiles[indices[index + 1]] = index + 1]
                /\ index' = index + 1
                /\ UNCHANGED <<mpc, mraised>>
    /\ UNCHANGED <<images_in_path, tile_size, x_tiles, y_tiles, channels>>
    /\ UNCHANGED predictor_vars

\* Line 70.
ReturnMosaic ==
    /\ mpc = "tiling"
    /\ index = Len(images_in_path)
    /\ mpc' = "returned"
    /\ UNCHANGED <<images_in_path, tile_size, x_tiles, y_tiles, channels,
                   mosaiced_im, index, mraised>>
    /\ UNCHANGED predictor_vars

NextMosaic == CountTiles \/ Canvas \/ PlaceTile \/ ReturnMosaic

SpecMosaic == InitMosaic /\ [][NextMosaic]_vars

SpecConcurrent == InitConcurrent /\ [][NextConcurrent]_vars

-----------------------------------------------------------------------------
(* Vocabulary of the properties *)

Aligned ==
    /\ Len(image.objects) = Len(image.labels)
    /\ Len(image.objects) = Len(image.probs)

Slots == 1..Len(objects)

\* The label box i is expected to carry in the output.
ExpectedLabel(i) ==
    IF class_labels.state = "table"
    THEN ClassTable[image.labels[i] + 1]
    ELSE image.labels[i]

\* r (1e-4 units) is p (1e-5 units) rounded to 4 decimals.
IsRounded4(r, p) == Abs(10 * r - p) <= 5

\* rec is exactly box i's own record.
OwnRecord(rec, i) ==
    /\ rec.bbox = objects[i]
    /\ rec.label = ExpectedLabel(i)
    /\ IsRounded4(rec.prob, image.probs[i])

IsNear(a, b) == {Abs(a[k] - b[k]) : k \in 1..4} = {0, 1}

Holders(i) == {j \in Slots : objects[j] = objects[i]}

NearOf(c) == {j \in Slots : IsNear(objects[j], objects[c])}

\* The highest-prob member of a group, the lowest index among equals.
Winner(group) ==
    CHOOSE j \in group :
        \A h \in group : probs[h] < probs[j] \/ (probs[h] = probs[j] /\ j <= h)

\* Groups of more than one box: near-duplicate groups and exact groups.
Groups ==
    {NearOf(c) \cup {c} : c \in {x \in Slots : NearOf(x) # {}}}
    \cup {Holders(c) : c \in {x \in Slots : Cardinality(Holders(x)) > 1}}

\* Boxes that are in some group without being its winner.
Absorbed == {i \in Slots : \E g \in Groups : i \in g /\ i # Winner(g)}

\* The divisor the rescaling rule prescribes for coordinate k:
\* x coordinates by the width scale, y coordinates by the height scale.
ExpectedDivisor(k) ==
    LET sf == image.scale_factor
    IN  IF sf.is_tuple
        THEN LET sh == sf.val[1]
                 sw == sf.val[2]
             IN  <<sw, sh, sw, sh>>[k]
        ELSE sf.val[1]

-----------------------------------------------------------------------------
(* Claims *)

\* C1: every coordinate tuple that occurs more than once in the rescaled box
\* list has exactly one record in the returned list, and that record carries
\* the label and prob of a highest-prob index holding the tuple.
\* The code violates it: a duplicate that wins its own near-duplicate group is
\* written as well.
C1_ExactDuplicatesCollapsed ==
    pc = "returned" =>
        \A i \in Slots :
            Cardinality(Holders(i)) > 1 =>
                LET recs == {k \in 1..Len(returned) :
                                 returned[k].bbox = objects[i]}
                IN  /\ Cardinality(recs) = 1
                    /\ \A k \in recs :
                           \E j \in Holders(i) :
                               /\ \A h \in Holders(i) : probs[h] <= probs[j]
                               /\ OwnRecord(returned[k], j)

\* C2: a batch of two near-duplicate boxes with different probs returns exactly
\* one record, the higher-probability box's own bbox, label and prob.
\* The code violates it: the lower-probability box is unique in the batch and
\* is written by the unique-box rule.
C2_NearDuplicatePairCollapsed ==
    (/\ pc = "returned"
     /\ Len(objects) = 2
     /\ IsNear(objects[1], objects[2])
     /\ probs[1] # probs[2])
    => /\ Len(returned) = 1
       /\ OwnRecord(returned[1], IF probs[1] > probs[2] THEN 1 ELSE 2)

\* C3: every box whose rescaled tuple occurs exactly once in the batch is in
\* the returned list with its own bbox, its own label and its own prob rounded
\* to 4 decimals, near-duplicate group or not.
C3_UniqueBoxKept ==
    pc = "returned" =>
        \A i \in Slots :
            Cardinality(Holders(i)) = 1 =>
                \E k \in 1..Len(returned) : OwnRecord(returned[k], i)

\* C3 witness: a returned batch with a unique box that has a near-duplicate
\* of higher prob, labels resolved through the table.
C3_Witness ==
    /\ pc = "returned"
    /\ class_labels.state = "table"
    /\ \E i \in Slots :
           /\ Cardinality(Holders(i)) = 1
           /\ \E j \in NearOf(i) : probs[j] > probs[i]

\* C4: adjacent records of the returned list are in descending order of their
\* rounded prob.
C4_SortedDescending ==
    pc = "returned" =>
        \A k \in 1..(Len(returned) - 1) :
            returned[k].prob >= returned[k + 1].prob

\* C4 witness: three records are returned, the slots held them in ascending
\* order of prob, and two raw probs that differ round to the same value.
C4_Witness ==
    /\ pc = "returned"
    /\ Len(returned) = 3
    /\ probs[1] < probs[2]
    /\ probs[2] < probs[3]
    /\ returned[1].prob > returned[2].prob
    /\ returned[2].prob = returned[3].prob

\* C5: the returned list is no longer than the batch, and its length is the
\* batch length minus the number of boxes absorbed into a near-duplicate or
\* exact-duplicate group without being that group's winner.
\* The code violates the equality: absorbed boxes are still written (C1, C2).
C5_Cardinality ==
    pc = "returned" =>
        /\ Len(returned) <= Len(objects)
        /\ Len(returned) = Len(objects) - Cardinality(Absorbed)

\* C6: after the division every coordinate is the network's coordinate divided
\* (a float32 division, exact for the divisors 1, 2 and 4) by the scalar, or,
\* for a pair (sh, sw), x by sw and y by sh; and the two examples of the rule
\* give [50,50,100,100] and [25,50,50,100].
C6_Rescaling ==
    /\ pc = "scaled" =>
           \A i \in Slots : \A k \in 1..4 :
               LET n == image.objects[i][k]
                   d == ExpectedDivisor(k)
                   f == objects[i][k]
               IN  /\ f = Float32Divide(n, d)
                   /\ d \in {1, 2, 4} => f[1] * d = n * 2^f[2]
    /\ RoundObjects(ScaleObjects(<<(<<100, 100, 200, 200>>)>>, Scalar(2)))
           = <<(<<50, 50, 100, 100>>)>>
    /\ RoundObjects(ScaleObjects(<<(<<100, 100, 200, 200>>)>>, Pair(2, 4)))
           = <<(<<25, 50, 50, 100>>)>>

\* C6 witness: a box with different x and y coordinates has been divided by a
\* pair whose height and width scales differ.
C6_Witness ==
    /\ pc = "scaled"
    /\ image.scale_factor.is_tuple
    /\ image.scale_factor.val[1] # image.scale_factor.val[2]
    /\ \E i \in Slots :
           /\ image.objects[i][1] # image.objects[i][2]
           /\ image.objects[i][1] > 0
           /\ image.objects[i][2] > 0

\* The boxes of the slots and of the returned records are the integer boxes.
OnlyIntegerBoxes ==
    /\ pc = "loop" =>
           \A i \in Slots :
               predictions[i] # None => predictions[i][1].bbox \in Range(objects)
    /\ pc = "returned" =>
           \A k \in 1..Len(returned) : returned[k].bbox \in Range(objects)

\* C7: every rescaled coordinate is an integer within 1/2 of the exact
\* quotient coordinate/scale, every exact half goes to the even neighbour,
\* and the boxes of the slots and of the returned records are these integer
\* boxes.
\* The code violates it: the division stores the quotient as a float32, and a
\* quotient that lies within half a float32 step below a half is stored as
\* the half and then goes to the even neighbour, more than 1/2 away.
C7_Rounding ==
    pc \in {"rounded", "loop", "returned"} =>
        /\ \A i \in Slots : \A k \in 1..4 :
               LET n == image.objects[i][k]
                   d == ExpectedDivisor(k)
                   r == objects[i][k]
               IN  /\ 2 * Abs(r * d - n) <= d
                   /\ (2 * Abs(r * d - n) = d => r % 2 = 0)
        /\ OnlyIntegerBoxes

\* What the code does instead: every rescaled coordinate is an integer within
\* 1/2 of the float32 quotient the division stored (the float32 nearest to
\* coordinate/scale), and every exact half of that stored quotient goes to
\* the even neighbour.
StoredQuotientRounded ==
    pc \in {"rounded", "loop", "returned"} =>
        /\ \A i \in Slots : \A k \in 1..4 :
               LET f == fetched.objects[i][k]
                   r == objects[i][k]
               IN  /\ f = Float32Divide(image.objects[i][k], ExpectedDivisor(k))
                   /\ f[2] \in 0..30
                   /\ 2 * Abs(r * 2^f[2] - f[1]) <= 2^f[2]
                   /\ (2 * Abs(r * 2^f[2] - f[1]) = 2^f[2] => r % 2 = 0)
        /\ OnlyIntegerBoxes

\* The box [5.6, 4.0, 5.6, 4.0] over the scales (1.6, 1.6) has been
\* returned: the exact quotients lie below 3.5 and 2.5, the stored float32
\* quotients are 3.5 and 2.5, and the halves went to 4 and to 2.
StoredHalfReturned ==
    /\ pc = "returned"
    /\ Len(returned) = 1
    /\ 2 * image.objects[1][1] < 7 * ExpectedDivisor(1)
    /\ 2 * image.objects[1][2] < 5 * ExpectedDivisor(2)
    /\ fetched.objects[1][1] = <<7, 1>>
    /\ fetched.objects[1][2] = <<5, 1>>
    /\ returned[1].bbox = <<4, 2, 4, 2>>

\* C8: with len(objects) # len(labels) or len(objects) # len(probs) the call
\* ends in the assertion error, writes no slot and returns no list.
\* The code violates it when __init__ left class_labels unset (C9): the call
\* ends in AttributeError before the assertion is reached.
C8_MismatchEndsInAssertion ==
    ~Aligned =>
        /\ \A i \in DOMAIN predictions : predictions[i] = None
        /\ pc # "returned"
        /\ returned = <<>>
        /\ pc = "raised" => raised = "AssertionError"

\* C9: with a class-label table every returned record carries the table's
\* entry for the raw label of its index; without a table, however the
\* predictor was constructed, an aligned call raises nothing and every
\* returned record carries the raw label of its index.
\* The code violates it: without a dataset dir __init__ never sets
\* class_labels and the call raises AttributeError.
C9_LabelResolution ==
    /\ (pc = "returned" /\ class_labels.state = "table") =>
           \A k \in 1..Len(returned) :
               \E i \in Slots :
                   /\ returned[k].bbox = objects[i]
                   /\ returned[k].label = ClassTable[image.labels[i] + 1]
                   /\ IsRounded4(returned[k].prob, image.probs[i])
    /\ (class_labels.state # "table" /\ Aligned) =>
           /\ raised = "none"
           /\ pc = "returned" =>
                  \A k \in 1..Len(returned) :
                      \E i \in Slots :
                          /\ returned[k].bbox = objects[i]
                          /\ returned[k].label = image.labels[i]
                          /\ IsRounded4(returned[k].prob, image.probs[i])

\* C10: a batch of zero boxes, zero labels and zero probs raises nothing and
\* returns the empty list.
\* The code violates it when __init__ left class_labels unset (C9): the call
\* raises AttributeError whatever the batch.
C10_EmptyInput ==
    (/\ image.objects = <<>>
     /\ image.labels = <<>>
     /\ image.probs = <<>>)
    => /\ raised = "none"
       /\ pc = "returned" => returned = <<>>


\* Both calls have ended.
BothEnded ==
    /\ pc \in {"returned", "raised"}
    /\ other.pc \in {"returned", "raised"}

\* The frame f ended in what its batch ends in when the call runs alone.
EndsAsAlone(f) ==
    f.pc \in {"returned", "raised"} =>
        [returned |-> f.returned, raised |-> f.raised]
            = PredictAlone(f.image, class_labels)

\* C11: two calls on one predictor, interleaved in any order, each end in
\* exactly what they end in when run alone, and no step of either call
\* changes the predictor's class_labels.
C11_ConcurrentCallsIndependent ==
    /\ [](EndsAsAlone(Frame) /\ EndsAsAlone(other))
    /\ [][class_labels' = class_labels]_vars

\* C11 witness: two calls of two boxes each have both ended, with different
\* non-empty lists.
C11_Witness ==
    /\ BothEnded
    /\ returned # <<>>
    /\ other.returned # <<>>
    /\ returned # other.returned
    /\ Len(image.objects) = 2
    /\ Len(other.image.objects) = 2

\* The mosaic, once allocated, has shape (T*tx, T*ty, channels), T the least
\* integer with T*T >= n, channels 1 for a grayscale first image and its
\* channel count otherwise; the call raises nothing, so it goes on to return,
\* and in the returned mosaic every image holds a tile of its own.
MosaicAsClaimed ==
    LET n == Len(images_in_path)
        T == CHOOSE t \in 0..n : t * t >= n /\ (t = 0 \/ (t - 1) * (t - 1) < n)
        first == images_in_path[1]
        ch == IF Len(first) = 2 THEN 1 ELSE first[3]
    IN  /\ mraised = "none"
        /\ mpc \in {"tiling", "returned"} =>
               /\ n <= T * T
               /\ mosaiced_im.shape = <<T * tile_size[1], T * tile_size[2], ch>>
               /\ Cardinality(DOMAIN mosaiced_im.tiles) = T * T
        /\ mpc = "returned" =>
               \A k \in 1..n :
                   Cardinality({t \in DOMAIN mosaiced_im.tiles :
                                    mosaiced_im.tiles[t] = k}) = 1

\* Every image has the channel layout of the first one: all grayscale, or all
\* with the first image's channel count.
SameLayout ==
    \A k \in 1..Len(images_in_path) :
        SubSeq(images_in_path[k], 3, Len(images_in_path[k]))
            = SubSeq(images_in_path[1], 3, Len(images_in_path[1]))

\* C12 as stated: for any n >= 1 images and tile size (tx, ty) the call
\* returns a mosaic of shape (T*tx, T*ty, channels) in which every image
\* holds a tile of its own.
C12_MosaicShape == Len(images_in_path) >= 1 => MosaicAsClaimed

\* C12 amended: for any n >= 1 images that all have the channel layout of
\* the first one and tile size (tx, ty) the call returns a mosaic of shape
\* (T*tx, T*ty, channels) in which every image holds a tile of its own.
C12_MosaicShapeSameLayout ==
    (Len(images_in_path) >= 1 /\ SameLayout) => MosaicAsClaimed

\* C12 witness: seven grayscale images and a tile size with tx # ty were
\* mosaiced on a 3 x 3 grid, and five colour images as well.
C12_Witness ==
    /\ mpc = "returned"
    /\ SameLayout
    /\ tile_size[1] # tile_size[2]
    /\ \/ /\ Len(images_in_path) = 7
          /\ x_tiles = 3
          /\ channels = 1
       \/ /\ Len(images_in_path) = 5
          /\ x_tiles = 3
          /\ channels = 3

\* |a[k] - b[k]|
Delta(a, b, k) == IF a[k] >= b[k] THEN a[k] - b[k] ELSE b[k] - a[k]

\* C13: bbs_pixel_apart(B, objects) lists, each once and in ascending order,
\* exactly the indices of the boxes that are within one pixel of B in every
\* coordinate, equal to B in some coordinate and one pixel off in some other;
\* so never B's own index, never an exact duplicate of B, never a box one
\* pixel off in all four coordinates or two or more pixels off in any.
C13_NearDuplicateRelation ==
    pc \in {"loop", "returned"} =>
        \A c \in Slots :
            LET r == bbs_pixel_apart(objects[c], objects)
            IN  /\ \A k \in 1..(Len(r) - 1) : r[k] < r[k + 1]
                /\ \A j \in Slots :
                       (\E k \in 1..Len(r) : r[k] = j) <=>
                           /\ \A k \in 1..4 : Delta(objects[j], objects[c], k) <= 1
                           /\ \E k \in 1..4 : Delta(objects[j], objects[c], k) = 0
                           /\ \E k \in 1..4 : Delta(objects[j], objects[c], k) = 1
                /\ \A k \in 1..Len(r) :
                       /\ r[k] # c
                       /\ objects[r[k]] # objects[c]
                       /\ \E h \in 1..4 : objects[r[k]][h] = objects[c][h]
                       /\ \A h \in 1..4 : Delta(objects[r[k]], objects[c], h) < 2

\* C13 witness: the loop has run over a pair of boxes that are one pixel
\* apart in three coordinates and equal in the fourth.
C13_Witness ==
    /\ pc = "loop"
    /\ count = 2
    /\ Cardinality({k \in 1..4 : Delta(objects[1], objects[2], k) = 1}) = 3
    /\ Cardinality({k \in 1..4 : Delta(objects[1], objects[2], k) = 0}) = 1
    /\ bbs_pixel_apart(objects[1], objects) = <<2>>

\* The members of a set of indices in ascending order.
AscendingSeq(S) ==
    CHOOSE q \in [1..Cardinality(S) -> S] :
        \A k \in 1..(Cardinality(S) - 1) : q[k] < q[k + 1]

\* The list the near-duplicate step scans at index c: the near-duplicates of
\* box c in ascending index order, then c itself.
ScanList(c) == Append(AscendingSeq(NearOf(c)), c)

\* The first entry of highest prob in the list scanned at index c.
ListWinner(c) ==
    LET l == ScanList(c)
        k == CHOOSE j \in 1..Len(l) :
                 /\ \A h \in 1..Len(l) : probs[l[h]] <= probs[l[j]]
                 /\ \A h \in 1..(j - 1) : probs[l[h]] < probs[l[j]]
    IN  l[k]

\* The iteration at index count + 1 is taken and its box has a near-duplicate.
NearIteration ==
    /\ pc = "loop"
    /\ count < Len(objects)
    /\ count' = count + 1
    /\ NearOf(count + 1) # {}

\* The near-duplicate step of this iteration writes slot w, and only slot w,
\* with box w's own record, and the iteration leaves that record in place.
NearStepWrites(w) ==
    LET after == NearStep(objects, labels, probs, predictions, count + 1)
    IN  /\ after[w] # None
        /\ OwnRecord(after[w][1], w)
        /\ \A i \in Slots \ {w} : after[i] = predictions[i]
        /\ predictions'[w] = after[w]

\* C14 as stated: the near-duplicate step writes the slot of the group's
\* member of highest prob, the lowest index among tied members (the current
\* box included), with that member's own bbox and label.
C14_NearWinnerLowestIndex ==
    [][NearIteration =>
           NearStepWrites(Winner(NearOf(count + 1) \cup {count + 1}))]_vars

\* C14 amended: the near-duplicate step writes the slot of the group's member
\* of highest prob, a tie being broken by first occurrence in the list
\* [near-duplicates in ascending index order, then the current box], with
\* that member's own bbox and label.
C14_NearWinnerListOrder ==
    [][NearIteration => NearStepWrites(ListWinner(count + 1))]_vars

\* C14 witness: an iteration has passed whose box tied for the highest prob
\* with a near-duplicate of higher index; the near-duplicate's slot is
\* filled and the box's own slot is not.
C14_Witness ==
    /\ pc = "loop"
    /\ \E c \in 1..count :
           /\ NearOf(c) # {}
           /\ Winner(NearOf(c) \cup {c}) = c
           /\ ListWinner(c) > c
           /\ predictions[ListWinner(c)] # None
           /\ predictions[c] = None

\* The positions of the returned records that carry box i's coordinates.
RecordsOf(i) == {k \in 1..Len(returned) : returned[k].bbox = objects[i]}

\* The batch of the example: [[0,0,10,10],[0,0,10,10]], probs [0.5, 0.9],
\* labels [1, 2], on a predictor without class table.
ExampleDuplicates ==
    PredictAlone([objects |-> <<<<0, 0, 10, 10>>, <<0, 0, 10, 10>>>>,
                  labels |-> <<1, 2>>,
                  probs |-> <<50000, 90000>>,
                  scale_factor |-> Scalar(1)], NoTable)

\* C15: in a batch where no box has a near-duplicate, each coordinate tuple
\* that occurs more than once yields exactly one returned record, the own
\* record of the index of highest prob among the holders of the tuple, the
\* lowest such index when the highest prob is tied; the example batch
\* returns the single record bbox=[0,0,10,10], label=2, prob=0.9.
C15_ExactDuplicatesWithoutNear ==
    /\ (pc = "returned" /\ \A c \in Slots : NearOf(c) = {}) =>
           \A i \in Slots :
               Cardinality(Holders(i)) > 1 =>
                   /\ Cardinality(RecordsOf(i)) = 1
                   /\ \A k \in RecordsOf(i) :
                          OwnRecord(returned[k], Winner(Holders(i)))
    /\ ExampleDuplicates.raised = "none"
    /\ ExampleDuplicates.returned =
           <<[bbox |-> <<0, 0, 10, 10>>, label |-> 2, prob |-> 9000]>>

\* C15 witness: a call returned for a batch without near-duplicates in which
\* a tuple is held by two indices with different labels, the second of
\* higher prob, next to a box of another tuple.
C15_Witness ==
    /\ pc = "returned"
    /\ \A c \in Slots : NearOf(c) = {}
    /\ Len(objects) = 3
    /\ Holders(1) = {1, 2}
    /\ probs[2] > probs[1]
    /\ labels[1] # labels[2]
    /\ Len(returned) = 2
    /\ \E k \in 1..2 : returned[k].bbox = objects[1]
                       /\ returned[k].label = labels[2]

\* The slots that are filled.
Filled == {i \in Slots : predictions[i] # None}

\* The position the record of the filled slot i takes in the output when
\* records are ordered by rounded prob descending and, among equal rounded
\* probs, by slot index ascending.
StablePosition(i) ==
    1 + Cardinality({j \in Filled :
                        \/ predictions[j][1].prob > predictions[i][1].prob
                        \/ /\ predictions[j][1].prob = predictions[i][1].prob
                           /\ j < i})

\* C16: output records of equal rounded prob appear in the order of their
\* slot indices: every surviving record sits at the position given by prob
\* descending, then slot index ascending.
C16_StableTies ==
    [][(pc = "loop" /\ pc' = "returned") =>
           /\ Len(returned') = Cardinality(Filled)
           /\ \A i \in Filled :
                  returned'[StablePosition(i)] = predictions[i][1]]_vars

\* C16 witness: a call returned three records of equal rounded prob (0.4
\* and 0.40004 among the inputs) that differ in bbox, in slot order.
C16_Witness ==
    /\ pc = "returned"
    /\ Len(returned) = 3
    /\ \A i \in 1..3 : returned[i].bbox = objects[i] /\ returned[i].prob = 4000
    /\ probs[1] # probs[2]
    /\ returned[1].bbox # returned[2].bbox
    /\ returned[2].bbox # returned[3].bbox
    /\ returned[1].bbox # returned[3].bbox

\* Every non-empty slot of preds holds the own record of its box.
OwnSlots(preds) ==
    \A i \in Slots : preds[i] # None => OwnRecord(preds[i][1], i)

\* During the pass every non-empty slot holds its box's own record, also
\* between the two rules of the next iteration, and the two rules of the next
\* iteration give the same slots in either order; after it every returned
\* record is the own record of some box and there are no more than N.
SlotInvariant ==
    /\ pc = "loop" => OwnSlots(predictions)
    /\ (pc = "loop" /\ count < Len(objects)) =>
           LET near_first == NearStep(objects, labels, probs, predictions,
                                      count + 1)
               exact_first == ExactStep(objects, labels, probs, predictions,
                                        count + 1)
           IN  /\ OwnSlots(near_first)
               /\ OwnSlots(exact_first)
               /\ ExactStep(objects, labels, probs, near_first, count + 1)
                      = NearStep(objects, labels, probs, exact_first, count + 1)
    /\ pc = "returned" =>
           /\ Len(returned) <= Len(objects)
           /\ \A k \in 1..Len(returned) :
                  \E i \in Slots : OwnRecord(returned[k], i)

\* C17: at every step of the pass every non-empty slot i holds exactly box
\* i's own record, whichever rule wrote it; a step never changes the content
\* of an already filled slot, the order of the rule writes does not matter,
\* and the output has one record per filled slot, at most N.
C17_SlotInvariant ==
    /\ []SlotInvariant
    /\ [][(pc = "loop" /\ pc' = "loop") =>
              \A i \in Slots :
                  predictions[i] # None => predictions'[i] = predictions[i]]_vars
    /\ [][(pc = "loop" /\ pc' = "returned") =>
              /\ Len(returned') = Cardinality(Filled)
              /\ \A i \in Filled : \E k \in 1..Len(returned') :
                     returned'[k] = predictions[i][1]]_vars

\* C17 witness: the pass is over two boxes one pixel apart, the second more
\* confident: its slot was written by the near-duplicate rule of the first
\* iteration and again by both rules of the second.
C17_Witness ==
    /\ pc = "loop"
    /\ count = 2
    /\ Len(objects) = 2
    /\ NearOf(1) = {2}
    /\ probs[2] > probs[1]
    /\ Filled = {1, 2}
    /\ OwnRecord(predictions[2][1], 2)
    /\ predictions[1][1].bbox # predictions[2][1].bbox

\* (a) box i's tuple occurs once in the batch.
SurvivesUnique(i) == Cardinality(Holders(i)) = 1

\* (b) i is the first index of highest prob among the holders of its tuple.
SurvivesExact(i) ==
    \A h \in Holders(i) :
        probs[h] < probs[i] \/ (probs[h] = probs[i] /\ i <= h)

\* (c) i is the first entry of highest prob in the list scanned at some
\* index c that has a near-duplicate.
SurvivesNear(i) == \E c \in Slots : NearOf(c) # {} /\ ListWinner(c) = i

\* The slots a pass without the near-duplicate step would end with.
SlotsWithoutNear ==
    RunLoopWithoutNear(objects, labels, probs,
                       [i \in 1..Len(objects) |-> None], 0)

PassOver == pc = "loop" /\ count = Len(objects)

\* C18: after the pass slot i is non-empty if and only if box i is unique,
\* or the first index of highest prob among the holders of its tuple, or the
\* first entry of highest prob in the list [near-duplicates of c ascending,
\* then c] of some index c with a near-duplicate; and every slot the pass
\* without the near-duplicate step would fill is filled with the same record,
\* so the output is a superset of that pass's output.
C18_SurvivingSlots ==
    /\ PassOver =>
           /\ \A i \in Slots :
                  predictions[i] # None <=>
                      SurvivesUnique(i) \/ SurvivesExact(i) \/ SurvivesNear(i)
           /\ \A i \in Slots :
                  SlotsWithoutNear[i] # None =>
                      predictions[i] = SlotsWithoutNear[i]
    /\ pc = "returned" =>
           /\ Len(returned) =
                  Cardinality({i \in Slots : SurvivesUnique(i)
                                   \/ SurvivesExact(i) \/ SurvivesNear(i)})
           /\ \A i \in Slots :
                  SlotsWithoutNear[i] # None =>
                      \E k \in 1..Len(returned) :
                          returned[k] = SlotsWithoutNear[i][1]

\* C18 witness: a call returned three records for three boxes, one of which
\* survives only as the winner of a near-duplicate group (the pass without
\* the near-duplicate step would return two), and the third box is unique.
C18_Witness ==
    /\ pc = "returned"
    /\ Len(returned) = 3
    /\ SurvivesUnique(3)
    /\ \E i \in Slots :
           /\ ~SurvivesUnique(i)
           /\ ~SurvivesExact(i)
           /\ SurvivesNear(i)
           /\ SlotsWithoutNear[i] = None
           /\ \E k \in 1..3 : OwnRecord(returned[k], i)

\* C19: the most confident detection is never lost: for a batch of N >= 1
\* boxes with aligned labels and probs the call raises nothing and what it
\* returns is a non-empty list whose first record has the maximum of the
\* input probs, rounded to 4 decimals.
C19_MostConfidentKept ==
    (Aligned /\ Len(image.objects) >= 1) =>
        /\ raised = "none"
        /\ pc = "returned" =>
               /\ returned # <<>>
               /\ IsRounded4(returned[1].prob, SeqMax(image.probs))

\* The permutations of 1..n.
PermutationsOf(n) ==
    {f \in [1..n -> 1..n] : \A i, j \in 1..n : f[i] = f[j] => i = j}

\* The batch b with objects, labels and probs rearranged by f.
Permuted(b, f) ==
    [objects |-> [i \in 1..Len(b.objects) |-> b.objects[f[i]]],
     labels |-> [i \in 1..Len(b.labels) |-> b.labels[f[i]]],
     probs |-> [i \in 1..Len(b.probs) |-> b.probs[f[i]]],
     scale_factor |-> b.scale_factor]

\* No two probs of the batch are equal once rounded to 4 decimals.
DistinctRounded ==
    \A i, j \in 1..Len(image.probs) :
        RoundProb(image.probs[i]) = RoundProb(image.probs[j]) => i = j

\* C20: when the probs of the batch are pairwise distinct after rounding to
\* 4 decimals, the call on any rearrangement of the batch (the same
\* permutation applied to objects, labels and probs) returns the same list:
\* the same records in the same order.
C20_OrderIndependence ==
    (pc = "returned" /\ DistinctRounded) =>
        \A f \in PermutationsOf(Len(image.objects)) :
            LET alone == PredictAlone(Permuted(image, f), class_labels)
            IN  alone.raised = "none" /\ alone.returned = returned

\* C20 witness: three boxes of pairwise distinct rounded probs, an exact
\* duplicate pair with different labels and a near-duplicate of it, the
\* least confident first: two records are returned, and the reversed batch
\* returns the same.
C20_Witness ==
    /\ pc = "returned"
    /\ DistinctRounded
    /\ Len(objects) = 3
    /\ objects[1] = objects[2]
    /\ NearOf(1) = {3}
    /\ labels[1] # labels[2]
    /\ probs[1] < probs[2]
    /\ probs[2] < probs[3]
    /\ Len(returned) = 2
    /\ PredictAlone(Permuted(image, <<3, 2, 1>>), class_labels).returned
           = returned

====
